---- MODULE Spec2Model ----
(***************************************************************************)
(* Model of the MATLAB gateway routine of the sixth-order kernel           *)
(* polynomial Wigner-Ville distribution, mexFunction in                    *)
(* func_wrap/pwvd6_m.c.  The host calls the gateway with nlhs requested    *)
(* outputs and nrhs arguments prhs[0..nrhs-1]; the gateway validates and   *)
(* normalises the arguments, allocates the output matrix plhs[0] and calls *)
(* the engine pwvd61.  One action per block of the routine, in the order   *)
(* of the source; the two radix-2 loops take one action per test of their  *)
(* condition.  Arguments are chosen when the routine reads them, so an     *)
(* argument a call never reads keeps its Unread value.                     *)
(***************************************************************************)
EXTENDS Integers, FiniteSets, Sequences, TLC

(* ---------------------------------------------------------------- bounds *)

\* array dimensions M, N of prhs[0] range over 0..MaxDim
MaxDim == 3
\* small scalar requests range over -1..MaxReq
MaxReq == 5
\* nrhs ranges over 3..MaxNrhs, nlhs over 0..MaxNlhs
MaxNrhs == 6
MaxNlhs == 2
\* the radix-2 loop is followed for at most MaxOrder increments of
\* window_order (a loop that has wrapped to 0 runs on without end)
MaxOrder == 34

(* ------------------------------------------------------- machine integers *)

\* width of the C type int of the build (x86-64, LP64)
IntBits == 32
IntMax == (2^(IntBits - 2) - 1) + 2^(IntBits - 2)
IntMin == (0 - IntMax) - 1

\* x <<= 1 on a 32-bit int.  Where 2*x is not representable the shift is
\* undefined in ISO C; gcc and clang both define it as the two's complement
\* shift (the low 32 bits of 2*x), which is the only outcome a build
\* produces.
Shl1(x) ==
    IF x >= 2^(IntBits - 2) THEN ((x - 2^(IntBits - 2)) - 2^(IntBits - 2)) * 2
    ELSE IF x < 0 - 2^(IntBits - 2)
         THEN ((x + 2^(IntBits - 2)) + 2^(IntBits - 2)) * 2
         ELSE 2 * x

\* (int) ceil((double) a / b) for a >= 0, b >= 1
CeilQuotientFloored(a, b) == a \div b
CeilQuotient(a, b) == IF a % b = 0 THEN a \div b ELSE (a \div b) + 1

\* (int)(x * 0.5): half of x, truncated toward zero
HalfTruncated(x) == IF x >= 0 THEN x \div 2 ELSE (x + 1) \div 2

(* -------------------------------------------------------------- arguments *)

\* requests large enough to meet the width of int
BigRequests == {2^(IntBits - 2), 2^(IntBits - 2) + 1}

NlhsValues == 0..MaxNlhs
NrhsValues == 3..MaxNrhs
DimValues == 0..MaxDim
SmallRequests == (0 - 1)..MaxReq

\* a scalar argument: ok says whether it is a well-formed scalar, v is its
\* value.  Requests are integer-valued doubles within the range of int, on
\* which the cast (int)*(mxGetPr(...)) is exact, so v is also the int read.
Scalars(S) == {[ok |-> TRUE, v |-> x] : x \in S} \cup {[ok |-> FALSE, v |-> 0]}
UnreadScalar == [ok |-> FALSE, v |-> 0 - 2]

\* prhs before any argument has been read
Unread == [numeric |-> FALSE, m |-> 0 - 1, n |-> 0 - 1,
           a1 |-> UnreadScalar, a2 |-> UnreadScalar,
           a3 |-> UnreadScalar, a4 |-> UnreadScalar]

\* answers of the allocator and of the engine, before they are asked
EnvUnasked == [alloc |-> "unasked", ret |-> 0 - 1]

\* the contents automatic variables can hold when the routine is entered
Indeterminate == {0, 1, 3}

(* ---------------------------------------------------------------- outputs *)

\* plhs[0]: what the gateway has bound to the slot (state, rows, cols, fill)
\* and whether winNTcheck has been run over the output array (checked)
Unset == [state |-> "unset", rows |-> 0, cols |-> 0, fill |-> "none",
          checked |-> FALSE]
NotCalled == [called |-> FALSE, signal_length |-> 0, nplts |-> 0,
              time_res |-> 0, window_length |-> 0, window_r2 |-> 0,
              window_order |-> 0, deg |-> 0]

\* tfsaErr(name, msg): reports msg to the caller and returns
tfsaErr(msg) == msg

\* winNTcheck(nlhs, plhs): the helper is run over the output array.  Its
\* body is not part of the gateway file, so what it leaves in plhs[0] is
\* not decided here: the slot keeps what the gateway bound to it and only
\* records that the helper ran.
winNTcheck(n, p) == [p EXCEPT !.checked = TRUE]

\* GoodScalar(ptr)
GoodScalar(a) == a.ok

\* MXCREATEFULL(rows, cols, REAL): a zero-filled rows x cols matrix
MXCREATEFULL(r, c) == [state |-> "matrix", rows |-> r, cols |-> c, fill |-> "zero",
                       checked |-> FALSE]

VARIABLES
    pc,             \* position in mexFunction, "idle" between calls
    nlhs, nrhs,     \* argument counts of the call
    prhs,           \* the arguments read so far
    env,            \* answers of the allocator and the engine
    plhs,           \* plhs[0], the output slot
    err, warned,    \* last tfsaErr message, whether tfsaWarning was raised
    engine,         \* the arguments pwvd61 was called with
    M, N, signal_length, window_length, time_res, fft_length,
    window_order, window_r2, nplts, deg, deg_r2,
    probe, first    \* one fixed input and the outcome of its first call

locals == <<M, N, signal_length, window_length, time_res, fft_length,
            window_order, window_r2, nplts, deg, deg_r2>>
call == <<nlhs, nrhs>>
out == <<plhs, err, warned, engine>>
hist == <<probe, first>>
vars == <<pc, nlhs, nrhs, prhs, env, plhs, err, warned, engine,
          M, N, signal_length, window_length, time_res, fft_length,
          window_order, window_r2, nplts, deg, deg_r2, probe, first>>

\* the inputs of the current call and what the caller observes of it
Inputs == [nlhs |-> nlhs, nrhs |-> nrhs, prhs |-> prhs, env |-> env]
Outcome == [err |-> err, warned |-> warned, engine |-> engine, plhs |-> plhs]

NoProbe == [nlhs |-> 0 - 1, nrhs |-> 0 - 1, prhs |-> Unread, env |-> EnvUnasked]
NotSeen == [seen |-> FALSE, outcome |-> [err |-> "none",
            warned |-> FALSE, engine |-> NotCalled, plhs |-> Unset]]

Init ==
    /\ pc = "idle"
    /\ nlhs = 0 /\ nrhs = 0
    /\ prhs = Unread
    /\ env = EnvUnasked
    /\ plhs = Unset
    /\ err = "none" /\ warned = FALSE
    /\ engine = NotCalled
    /\ M = 0 /\ N = 0 /\ signal_length = 0 /\ window_length = 0
    /\ time_res = 0 /\ fft_length = 0 /\ window_order = 0 /\ window_r2 = 0
    /\ nplts = 0 /\ deg = 0 /\ deg_r2 = 0
    /\ probe = NoProbe
    /\ first = NotSeen

\* tfsaErr(...); winNTcheck(nlhs, plhs); return;
Fail(msg) ==
    /\ err' = tfsaErr(msg)
    /\ plhs' = winNTcheck(nlhs, plhs)
    /\ pc' = "ret"

\* The host calls the gateway.  Automatic variables start indeterminate.
Invoke ==
    /\ pc = "idle"
    /\ \E nl \in NlhsValues, nr \in NrhsValues, g \in Indeterminate :
         /\ nlhs' = nl /\ nrhs' = nr
         /\ M' = g /\ N' = g /\ signal_length' = g /\ window_length' = g
         /\ time_res' = g /\ fft_length' = g /\ window_order' = g
         /\ window_r2' = g /\ nplts' = g /\ deg' = g /\ deg_r2' = g
    /\ prhs' = Unread
    /\ env' = EnvUnasked
    /\ plhs' = Unset
    /\ err' = "none" /\ warned' = FALSE
    /\ engine' = NotCalled
    /\ pc' = "argcount"
    /\ UNCHANGED hist

\* basic input--output number check
ArgCountErrorLax(nl, nr) ==
    IF nr < 4 THEN "Not enough input arguments"
    ELSE IF nr > 6 THEN "Too many input arguments"
    ELSE IF nl > 1 THEN "Too many output arguments"
    ELSE "none"
ArgCountError(nl, nr) ==
    IF nr < 4 THEN "Not enough input arguments"
    ELSE IF nr > 5 THEN "Too many input arguments"
    ELSE IF nl > 1 THEN "Too many output arguments"
    ELSE "none"

CheckArgCount ==
    /\ pc = "argcount"
    /\ IF ArgCountError(nlhs, nrhs) # "none"
       THEN Fail(ArgCountError(nlhs, nrhs))
       ELSE /\ pc' = "first"
            /\ UNCHANGED <<plhs, err>>
    /\ UNCHANGED <<call, prhs, env, warned, engine, locals, hist>>

\* Check first input
CheckFirstInput ==
    /\ pc = "first"
    /\ \E num \in BOOLEAN :
         /\ prhs' = [prhs EXCEPT !.numeric = num]
         /\ IF ~num THEN Fail("Input must be a vector")
            ELSE /\ pc' = "dims"
                 /\ UNCHANGED <<plhs, err>>
    /\ UNCHANGED <<call, env, warned, engine, locals, hist>>

\* Get input matrix dimensions, check them, set signal_length
CheckDims ==
    /\ pc = "dims"
    /\ \E m \in DimValues, n \in DimValues :
         /\ prhs' = [prhs EXCEPT !.m = m, !.n = n]
         /\ M' = m /\ N' = n
         /\ IF (m = 1 /\ n = 1) \/ (m # 1 /\ n # 1)
            THEN /\ Fail("Input must be a vector")
                 /\ UNCHANGED signal_length
            ELSE /\ signal_length' = (IF m > n THEN m ELSE n)
                 /\ pc' = "window"
                 /\ UNCHANGED <<plhs, err>>
    /\ UNCHANGED <<call, env, warned, engine, window_length, time_res,
                   fft_length, window_order, window_r2, nplts, deg, deg_r2, hist>>

\* Check second input: smoothing window length, truncated to signal length
WindowTruncatedNever(w, len) == w
WindowTruncated(w, len) == IF w > len THEN len ELSE w

ReadWindow ==
    /\ pc = "window"
    /\ \E a \in Scalars(SmallRequests) :
         /\ prhs' = [prhs EXCEPT !.a1 = a]
         /\ IF ~GoodScalar(a)
            THEN /\ Fail("Smoothing window length must be a scalar")
                 /\ UNCHANGED <<window_length, warned>>
            ELSE IF a.v < 1
            THEN /\ Fail("Window length must be greater than zero")
                 /\ window_length' = a.v
                 /\ UNCHANGED warned
            ELSE /\ window_length' = WindowTruncated(a.v, signal_length)
                 /\ warned' = (a.v > signal_length)
                 /\ pc' = "timeres"
                 /\ UNCHANGED <<plhs, err>>
    /\ UNCHANGED <<call, env, engine, M, N, signal_length, time_res,
                   fft_length, window_order, window_r2, nplts, deg, deg_r2, hist>>

\* Check third input: time resolution
TimeResErrorLax(t, len) ==
    IF t < 1 THEN "Time resolution must be greater than zero" ELSE "none"
TimeResError(t, len) ==
    IF t < 1 THEN "Time resolution must be greater than zero"
    ELSE IF t > len THEN "Time resolution must be no greater than signal length"
    ELSE "none"

ReadTimeRes ==
    /\ pc = "timeres"
    /\ \E a \in Scalars(SmallRequests) :
         /\ prhs' = [prhs EXCEPT !.a2 = a]
         /\ IF ~GoodScalar(a)
            THEN /\ Fail("Time resolution must be a scalar")
                 /\ UNCHANGED time_res
            ELSE /\ time_res' = a.v
                 /\ IF TimeResError(a.v, signal_length) # "none"
                    THEN Fail(TimeResError(a.v, signal_length))
                    ELSE /\ pc' = "degree"
                         /\ UNCHANGED <<plhs, err>>
    /\ UNCHANGED <<call, env, warned, engine, M, N, signal_length, window_length,
                   fft_length, window_order, window_r2, nplts, deg, deg_r2, hist>>

\* Process fourth input: interpolation degree; deg_r2 = 1
DegR2StartStale(stale) == stale
DegR2Start(stale) == 1

ReadDegree ==
    /\ pc = "degree"
    /\ \E a \in Scalars(SmallRequests \cup BigRequests) :
         /\ prhs' = [prhs EXCEPT !.a3 = a]
         /\ IF ~GoodScalar(a)
            THEN /\ Fail("Interpolation degree must be a scalar")
                 /\ UNCHANGED <<deg, deg_r2>>
            ELSE /\ deg' = a.v
                 /\ deg_r2' = DegR2Start(deg_r2)
                 /\ pc' = "degloop"
                 /\ UNCHANGED <<plhs, err>>
    /\ UNCHANGED <<call, env, warned, engine, M, N, signal_length, window_length,
                   time_res, fft_length, window_order, window_r2, nplts, hist>>

\* while (deg_r2 < deg) deg_r2 <<= 1;  deg = deg_r2;
DegLoopRunsInclusive(r2, d) == r2 <= d
DegLoopRuns(r2, d) == r2 < d

DegLoop ==
    /\ pc = "degloop"
    /\ IF DegLoopRuns(deg_r2, deg)
       THEN /\ deg_r2' = Shl1(deg_r2)
            /\ UNCHANGED <<pc, deg>>
       ELSE /\ deg' = deg_r2
            /\ pc' = "fft"
            /\ UNCHANGED deg_r2
    /\ UNCHANGED <<call, prhs, env, out, M, N, signal_length, window_length,
                   time_res, fft_length, window_order, window_r2, nplts, hist>>

\* Process fifth input -- if exists; fft_length raised to window_length
FftRaisedNever(f, w) == f
FftRaised(f, w) == IF f < w THEN w ELSE f

ReadFft ==
    /\ pc = "fft"
    /\ \E a \in (IF nrhs = 5 THEN Scalars(SmallRequests \cup BigRequests)
                 ELSE {UnreadScalar}) :
         /\ prhs' = [prhs EXCEPT !.a4 = a]
         /\ IF nrhs = 5 /\ ~GoodScalar(a)
            THEN /\ Fail("FFT length must be a scalar")
                 /\ UNCHANGED fft_length
            ELSE LET f == IF nrhs = 5 THEN a.v ELSE window_length IN
                 IF f < 0
                 THEN /\ Fail("FFT length must be greater than zero")
                      /\ fft_length' = f
                 ELSE /\ fft_length' = FftRaised(f, window_length)
                      /\ pc' = "nplts"
                      /\ UNCHANGED <<plhs, err>>
    /\ UNCHANGED <<call, env, warned, engine, M, N, signal_length, window_length,
                   time_res, window_order, window_r2, nplts, deg, deg_r2, hist>>

\* Calculate number of times for computing PWVD; start the radix-2 loop
CalcNplts ==
    /\ pc = "nplts"
    /\ nplts' = CeilQuotient(signal_length, time_res)
    /\ window_order' = 0
    /\ window_r2' = 1
    /\ pc' = "radixloop"
    /\ UNCHANGED <<call, prhs, env, out, M, N, signal_length, window_length,
                   time_res, fft_length, deg, deg_r2, hist>>

\* while (window_r2 < fft_length) { window_order++; window_r2 <<= 1; }
RadixLoop ==
    /\ pc = "radixloop"
    /\ IF window_r2 < fft_length
       THEN /\ window_order < MaxOrder
            /\ window_order' = window_order + 1
            /\ window_r2' = Shl1(window_r2)
            /\ UNCHANGED pc
       ELSE /\ pc' = "alloc"
            /\ UNCHANGED <<window_order, window_r2>>
    /\ UNCHANGED <<call, prhs, env, out, M, N, signal_length, window_length,
                   time_res, fft_length, nplts, deg, deg_r2, hist>>

\* plhs[0] = MXCREATEFULL((int)(window_r2*0.5), nplts, REAL), NULL on failure
Allocate ==
    /\ pc = "alloc"
    /\ \E ok \in BOOLEAN :
         /\ env' = [env EXCEPT !.alloc = IF ok THEN "ok" ELSE "null"]
         /\ IF ok
            THEN /\ plhs' = MXCREATEFULL(HalfTruncated(window_r2), nplts)
                 /\ pc' = "engine"
                 /\ UNCHANGED err
            ELSE Fail("Memory allocation failed")
    /\ UNCHANGED <<call, prhs, warned, engine, locals, hist>>

\* pwvd61 fills the whole matrix and returns 0, or stops early and returns 1
pwvd61(ret, p) == [p EXCEPT !.fill = IF ret = 0 THEN "full" ELSE "partial"]

\* if (pwvd61(...)) { tfsaErr(...); winNTcheck(nlhs, plhs); }
EngineFailure(ret, n, p) == IF ret # 0 THEN winNTcheck(n, p) ELSE p

CallEngine ==
    /\ pc = "engine"
    /\ \E ret \in {0, 1} :
         /\ env' = [env EXCEPT !.ret = ret]
         /\ engine' = [called |-> TRUE, signal_length |-> signal_length,
                       nplts |-> nplts, time_res |-> time_res,
                       window_length |-> window_length, window_r2 |-> window_r2,
                       window_order |-> window_order, deg |-> deg]
         /\ plhs' = EngineFailure(ret, nlhs, pwvd61(ret, plhs))
         /\ err' = IF ret # 0 THEN tfsaErr("Function failed") ELSE err
    /\ pc' = "ret"
    /\ UNCHANGED <<call, prhs, warned, locals, hist>>

\* The gateway returns: the host takes err and plhs[0] as they stand at
\* "ret", and the automatic variables of the call cease to exist.
Return ==
    /\ pc = "ret"
    /\ pc' = "idle"
    /\ first' = IF Inputs = probe /\ ~first.seen
                THEN [seen |-> TRUE, outcome |-> Outcome]
                ELSE first
    /\ nlhs' = 0 /\ nrhs' = 0
    /\ prhs' = Unread
    /\ env' = EnvUnasked
    /\ plhs' = Unset
    /\ err' = "none" /\ warned' = FALSE
    /\ engine' = NotCalled
    /\ M' = 0 /\ N' = 0 /\ signal_length' = 0 /\ window_length' = 0
    /\ time_res' = 0 /\ fft_length' = 0 /\ window_order' = 0 /\ window_r2' = 0
    /\ nplts' = 0 /\ deg' = 0 /\ deg_r2' = 0
    /\ UNCHANGED probe

Next ==
    \/ Invoke
    \/ CheckArgCount
    \/ CheckFirstInput
    \/ CheckDims
    \/ ReadWindow
    \/ ReadTimeRes
    \/ ReadDegree
    \/ DegLoop
    \/ ReadFft
    \/ CalcNplts
    \/ RadixLoop
    \/ Allocate
    \/ CallEngine
    \/ Return

Spec == Init /\ [][Next]_vars

(* --------------------------------------------------- repeated invocations *)

\* Fixed inputs whose calls are compared with one another: a call whose
\* window is truncated, a call with an FFT length, a rejected call.
GoodArg(x) == [ok |-> TRUE, v |-> x]
ProbeInputs ==
    { [nlhs |-> 1, nrhs |-> 4,
       prhs |-> [numeric |-> TRUE, m |-> 1, n |-> 3, a1 |-> GoodArg(5),
                 a2 |-> GoodArg(2), a3 |-> GoodArg(5), a4 |-> UnreadScalar],
       env |-> [alloc |-> "ok", ret |-> 0]],
      [nlhs |-> 0, nrhs |-> 5,
       prhs |-> [numeric |-> TRUE, m |-> 2, n |-> 1, a1 |-> GoodArg(2),
                 a2 |-> GoodArg(1), a3 |-> GoodArg(3), a4 |-> GoodArg(5)],
       env |-> [alloc |-> "ok", ret |-> 0]],
      [nlhs |-> 1, nrhs |-> 4,
       prhs |-> [numeric |-> TRUE, m |-> 1, n |-> 2, a1 |-> GoodArg(1),
                 a2 |-> GoodArg(3), a3 |-> UnreadScalar, a4 |-> UnreadScalar],
       env |-> EnvUnasked] }

InitDet ==
    /\ pc = "idle"
    /\ nlhs = 0 /\ nrhs = 0
    /\ prhs = Unread
    /\ env = EnvUnasked
    /\ plhs = Unset
    /\ err = "none" /\ warned = FALSE
    /\ engine = NotCalled
    /\ M = 0 /\ N = 0 /\ signal_length = 0 /\ window_length = 0
    /\ time_res = 0 /\ fft_length = 0 /\ window_order = 0 /\ window_r2 = 0
    /\ nplts = 0 /\ deg = 0 /\ deg_r2 = 0
    /\ probe \in ProbeInputs
    /\ first = NotSeen

SpecDet == InitDet /\ [][Next]_vars
(* ------------------------------------------------------------- properties *)

IsPowerOfTwo(x) == \E k \in 0..(IntBits - 2) : x = 2^k
\* x is the smallest power of two that is >= r
SmallestPowerOfTwoAtLeast(x, r) ==
    /\ IsPowerOfTwo(x)
    /\ x >= r
    /\ x = 1 \/ x \div 2 < r
Larger(a, b) == IF a > b THEN a ELSE b
Smaller(a, b) == IF a < b THEN a ELSE b

\* the call has read its dimensions / its k-th scalar
DimsRead == prhs.m >= 0
LengthOfSignal == Larger(prhs.m, prhs.n)
\* the window length in force after truncation to the signal length
WindowInForce == Smaller(prhs.a1.v, LengthOfSignal)
\* the transform length requested, the window length when it is omitted
FftRequested == IF nrhs = 5 THEN prhs.a4.v ELSE WindowInForce

\* C1: whenever the output matrix exists it has window_r2/2 rows and
\* ceil(signal_length/time_step) columns, with signal_length = max(M, N); a
\* time step equal to the signal length gives exactly one column.
C1_OutputShape ==
    plhs.state = "matrix" =>
        /\ signal_length = LengthOfSignal
        /\ 2 * plhs.rows <= window_r2 /\ window_r2 < 2 * plhs.rows + 2
        /\ plhs.cols * prhs.a2.v >= signal_length
        /\ (plhs.cols - 1) * prhs.a2.v < signal_length
        /\ (prhs.a2.v = signal_length => plhs.cols = 1)

C1_Witness ==
    /\ pc = "ret" /\ plhs.state = "matrix" /\ plhs.fill = "full"
    /\ signal_length = 3 /\ prhs.a2.v = 2 /\ plhs.cols = 2 /\ plhs.rows = 2

\* C2: the radix length handed to the engine is the smallest power of two
\* >= max(window length in force, requested transform length), the request
\* being the window length when omitted, and window_r2 = 2^window_order.
C2_RadixLength ==
    engine.called =>
        /\ SmallestPowerOfTwoAtLeast(engine.window_r2,
                                     Larger(WindowInForce, FftRequested))
        /\ engine.window_order \in 0..(IntBits - 2)
        /\ engine.window_r2 = 2^engine.window_order

C2_Witness ==
    /\ engine.called /\ nrhs = 5 /\ prhs.a4.v = 5 /\ WindowInForce = 2
    /\ engine.window_r2 = 8 /\ engine.window_order = 3

\* C3: the order handed to the engine is the smallest power of two >= the
\* requested order for every non-negative request; 0,1,2,3,4,5 give
\* 1,1,2,4,4,8.
C3_PolyOrder ==
    (engine.called /\ prhs.a3.v >= 0) =>
        /\ SmallestPowerOfTwoAtLeast(engine.deg, prhs.a3.v)
        /\ (prhs.a3.v \in 0..5 => engine.deg = <<1, 1, 2, 4, 4, 8>>[prhs.a3.v + 1])

C3_Witness == engine.called /\ prhs.a3.v = 5 /\ engine.deg = 8

\* C4: every signal of length 0 or 1 and every two-dimensional signal is
\* rejected with "Input must be a vector", so the engine only ever sees
\* signal_length >= 2.
C4_VectorOnly ==
    /\ (DimsRead /\ (prhs.m * prhs.n <= 1 \/ (prhs.m # 1 /\ prhs.n # 1)))
           => err = "Input must be a vector"
    /\ engine.called => engine.signal_length >= 2

\* the call has just ended on the error msg, allocator and engine untouched
Rejected(msg) ==
    /\ pc = "ret"
    /\ err = msg
    /\ env = EnvUnasked
    /\ plhs.state # "matrix"
    /\ ~engine.called
\* C5: a window length < 1, a time step < 1 or > signal length, or a
\* transform length < 0 is reported with its own message, at once, with no
\* later argument read, no matrix allocated and the engine not invoked.
C5_RejectedBeforeAllocation ==
    /\ (prhs.a1.ok /\ prhs.a1.v < 1) =>
           /\ Rejected("Window length must be greater than zero")
           /\ prhs.a2 = UnreadScalar
    /\ (prhs.a2.ok /\ prhs.a2.v < 1) =>
           /\ Rejected("Time resolution must be greater than zero")
           /\ prhs.a3 = UnreadScalar
    /\ (prhs.a2.ok /\ prhs.a2.v >= 1 /\ prhs.a2.v > LengthOfSignal) =>
           /\ Rejected("Time resolution must be no greater than signal length")
           /\ prhs.a3 = UnreadScalar
    /\ (prhs.a4.ok /\ prhs.a4.v < 0) =>
           Rejected("FFT length must be greater than zero")

C5_Witness ==
    /\ pc = "ret" /\ prhs.a4.ok /\ prhs.a4.v = 0 - 1
    /\ prhs.a1.v >= 1 /\ prhs.a2.v >= 1 /\ prhs.a2.v <= LengthOfSignal
    /\ err = "FFT length must be greater than zero"

\* C6: a window length above the signal length raises the warning and is
\* replaced by the signal length; the window length in force, the default
\* transform length and the value given to the engine never exceed the
\* signal length, and the call goes on: no window error follows.
C6_WindowTruncated ==
    /\ warned <=> (prhs.a1.ok /\ prhs.a1.v >= 1 /\ prhs.a1.v > LengthOfSignal)
    /\ warned => window_length = signal_length
    /\ (prhs.a1.ok /\ prhs.a1.v >= 1) =>
           /\ window_length = WindowInForce
           /\ window_length <= signal_length
    /\ (warned /\ pc = "timeres") => err = "none"
    /\ warned => err \notin {"Window length must be greater than zero",
                             "Smoothing window length must be a scalar"}
    /\ (pc \in {"nplts", "radixloop", "alloc", "engine"} /\ nrhs = 4) =>
           fft_length = window_length
    /\ engine.called =>
           /\ engine.window_length = WindowInForce
           /\ engine.window_length <= engine.signal_length
           /\ engine.window_r2 >= engine.window_length

C6_Witness ==
    /\ pc = "ret" /\ warned /\ prhs.a1.v = 5 /\ signal_length = 3
    /\ engine.called /\ engine.window_length = 3 /\ nrhs = 4
    /\ err = "none" /\ plhs.fill = "full"

ArgCountMessages == {"Not enough input arguments", "Too many input arguments",
                     "Too many output arguments"}
\* C8: a call with nrhs < 4, nrhs > 5 or nlhs > 1 is rejected with no
\* argument read and the engine not invoked; every other call passes the
\* check.
C8_ArgCount ==
    pc \notin {"idle", "argcount"} =>
        /\ (nrhs < 4 \/ nrhs > 5 \/ nlhs > 1) =>
               /\ pc = "ret"
               /\ err \in ArgCountMessages
               /\ prhs = Unread
               /\ env = EnvUnasked
               /\ ~engine.called
        /\ (nrhs < 4 => err = "Not enough input arguments")
        /\ (nrhs > 5 => err = "Too many input arguments")
        /\ (nrhs \in {4, 5} /\ nlhs <= 1) => err \notin ArgCountMessages

C8_Witness ==
    /\ pc = "ret" /\ nrhs = 6 /\ nlhs = 0 /\ err = "Too many input arguments"

\* C9: a call with the same inputs as an earlier call ends with the same
\* outcome (error, warning, normalised parameters and output shape),
\* whatever its automatic variables held on entry and whatever calls came
\* between.
C9_SameOutcome ==
    (pc = "ret" /\ Inputs = probe /\ first.seen) => Outcome = first.outcome

C9_Witness ==
    /\ pc = "ret" /\ Inputs = probe /\ first.seen /\ engine.called
    /\ warned /\ engine.deg = 8

\* C10: in both doubling loops the doubled value stays positive, that is,
\* it never overflows, for every request the validation lets through.
C10_NoOverflow ==
    /\ pc = "degloop" => deg_r2 >= 1
    /\ pc = "radixloop" => window_r2 >= 1
====
